---- MODULE Spec2Model ----
(***************************************************************************)
(* One request through solve_ee_problem (modal_app.py) and the stages it   *)
(* calls: ColPaliModel.index_pdf_from_bytes / get_top_k_pages,             *)
(* analyze_question_with_qwen_url, generate_circuit_code and               *)
(* run_generated_code.  Strings are sequences of tokens, each token        *)
(* standing for a non-empty piece of text: "WS" a run of whitespace,      *)
(* "FENCE" three backticks, "QUOTE" a double quote, "DEEP" a run of        *)
(* opening brackets longer than the interpreter's recursion limit.         *)
(***************************************************************************)
EXTENDS Integers, Sequences, FiniteSets, TLC

\* ---------------------------------------------------------------- bounds
MaxPages == 3
MaxUserImages == 2
MaxScore == 1

\* ------------------------------------------------------ program constants
HEALTH_CHECK_MAX_RETRIES == 30
PDF_BATCH_SIZE == 4
TopK == 3

VARIABLES
  user_query, pdf_data, user_images_bytes,   \* the request
  pc,                                        \* position in solve_ee_problem
  user_images_b64,
  pdf_task,                                  \* the spawned indexing call
  qwen_server_url, deepseek_server_url,
  relevant_pages, textual_solution, circuit_schemdraw, circuit_result,
  gate,                                      \* locals of the running health-check loop
  exc,                                       \* the exception in flight
  result,                                    \* what solve_ee_problem returned
  started, returned, failed, running,        \* history: stage calls
  overlap,                                   \* history: a URL was resolved while indexing ran
  posts,                                     \* history: chat-completion requests sent
  figures,                                   \* pyplot's open figures in the compiler process
  runs,                                      \* history: run_generated_code calls of that process
  unit                                       \* arguments and result of one function under study

vars == <<user_query, pdf_data, user_images_bytes, pc, user_images_b64, pdf_task,
          qwen_server_url, deepseek_server_url, relevant_pages, textual_solution,
          circuit_schemdraw, circuit_result, gate, exc, result,
          started, returned, failed, running, overlap, posts, figures, runs, unit>>

\* ------------------------------------------------------------ exceptions
\* cls "Exception": caught by `except Exception`; cls "BaseException": an
\* exception outside the Exception hierarchy (SystemExit), which it lets pass.
Exc(cls, msg) == [cls |-> cls, msg |-> msg]
NoExc == Exc("none", <<>>)

\* str(e) of a caught exception
StrOf(e) == e.msg

\* ------------------------------------------------------------ token text
RECURSIVE LStrip(_)
LStrip(s) == IF s # <<>> /\ Head(s) = "WS" THEN LStrip(Tail(s)) ELSE s

RECURSIVE RStrip(_)
RStrip(s) == IF s # <<>> /\ s[Len(s)] = "WS" THEN RStrip(SubSeq(s, 1, Len(s) - 1)) ELSE s

\* str.strip()
Strip(s) == RStrip(LStrip(s))

\* does pat occur in s at position i
OccursAt(s, pat, i) ==
  /\ i >= 1
  /\ i + Len(pat) - 1 <= Len(s)
  /\ \A j \in 1..Len(pat) : s[i + j - 1] = pat[j]

\* str.find / str.rfind: the first / last position of pat, 0 when absent (Python: -1)
Find(s, pat) ==
  LET hits == {i \in 1..Len(s) : OccursAt(s, pat, i)}
  IN IF hits = {} THEN 0 ELSE CHOOSE i \in hits : \A j \in hits : i <= j

RFind(s, pat) ==
  LET hits == {i \in 1..Len(s) : OccursAt(s, pat, i)}
  IN IF hits = {} THEN 0 ELSE CHOOSE i \in hits : \A j \in hits : i >= j

\* s[a:b] on token positions a..b-1
Slice(s, a, b) == SubSeq(s, a, b - 1)

\* ------------------------------------------------- json.loads on a response
\* The JSON texts the token alphabet can spell: an object with no member or
\* with one string-valued member; "WS" inside a string is plain spaces.
\* Every other text is a JSONDecodeError.
RECURSIVE SkipWS(_, _)
SkipWS(s, i) == IF i <= Len(s) /\ s[i] = "WS" THEN SkipWS(s, i + 1) ELSE i

IsTok(s, i, t) == i <= Len(s) /\ s[i] = t

\* position of the quote closing the string opened at i, 0 when unterminated
StrEnd(s, i) ==
  LET qs == {j \in (i + 1)..Len(s) : s[j] = "QUOTE"}
  IN IF qs = {} THEN 0 ELSE CHOOSE j \in qs : \A k \in qs : j <= k

JsonError == [ok |-> FALSE, empty |-> FALSE, key |-> <<>>, val |-> <<>>]

JsonLoads(s) ==
  LET a == SkipWS(s, 1)
      b == SkipWS(s, a + 1)
      ke == StrEnd(s, b)
      c == SkipWS(s, ke + 1)
      d == SkipWS(s, c + 1)
      ve == StrEnd(s, d)
      e == SkipWS(s, ve + 1)
  IN IF ~IsTok(s, a, "{") THEN JsonError
     ELSE IF IsTok(s, b, "}")
       THEN IF SkipWS(s, b + 1) > Len(s)
              THEN [ok |-> TRUE, empty |-> TRUE, key |-> <<>>, val |-> <<>>]
              ELSE JsonError
     ELSE IF ~IsTok(s, b, "QUOTE") \/ ke = 0 THEN JsonError
     ELSE IF ~IsTok(s, c, ":") THEN JsonError
     ELSE IF ~IsTok(s, d, "QUOTE") \/ ve = 0 THEN JsonError
     ELSE IF ~IsTok(s, e, "}") \/ SkipWS(s, e + 1) <= Len(s) THEN JsonError
     ELSE [ok |-> TRUE, empty |-> FALSE,
           key |-> Slice(s, b + 1, ke), val |-> Slice(s, d + 1, ve)]

\* json.loads raises RecursionError, which is no JSONDecodeError: the scanner
\* has read the opening of an object and a member name and meets, where the
\* value starts, "DEEP": brackets nested deeper than the interpreter's
\* recursion limit
JsonRecursionError(s) ==
  LET a == SkipWS(s, 1)
      b == SkipWS(s, a + 1)
      ke == StrEnd(s, b)
      c == SkipWS(s, ke + 1)
      d == SkipWS(s, c + 1)
  IN /\ IsTok(s, a, "{")
     /\ IsTok(s, b, "QUOTE") /\ ke # 0
     /\ IsTok(s, c, ":")
     /\ IsTok(s, d, "DEEP")

\* 'code' in json_response
HasCodeKey(js) == js.ok /\ ~js.empty /\ js.key = <<"code">>

\* ------------------------------------ generate_circuit_code: code extraction
FenceFallback(content) ==
  IF Find(content, <<"FENCE", "python">>) # 0
    THEN LET code_start == Find(content, <<"FENCE", "python">>) + 2
             code_end == RFind(content, <<"FENCE">>)
         IN IF code_end # 0 /\ code_end > code_start
              THEN Strip(Slice(content, code_start, code_end))
              ELSE content
  ELSE IF Find(content, <<"FENCE">>) # 0
    THEN LET first_backticks == Find(content, <<"FENCE">>)
             last_backticks == RFind(content, <<"FENCE">>)
         IN IF first_backticks # 0 /\ last_backticks # 0 /\ last_backticks > first_backticks
              THEN Strip(Slice(content, first_backticks + 1, last_backticks))
              ELSE content
  ELSE content

\* the extraction ends with an exception: `except json.JSONDecodeError`
\* is the only handler around json.loads
ExtractRaises(content) ==
  IsTok(Strip(content), 1, "{") /\ JsonRecursionError(content)

ExtractError ==
  Exc("Exception", <<"maximum recursion depth exceeded while decoding a JSON array">>)

\* the text the extraction returns; defined when ~ExtractRaises(content)
ExtractCode(content) ==
  IF IsTok(Strip(content), 1, "{") /\ HasCodeKey(JsonLoads(content))
    THEN JsonLoads(content).val
    ELSE FenceFallback(content)

\* ----------------------------------------------------- run_generated_code
\* What exec(schemdraw_code) does.  "draw" opens a new figure and draws the
\* circuit on it, "x=1" only assigns, "print" writes to standard output,
\* "raise" raises an Exception, "draw_then_raise" and "print_then_raise" do
\* so after drawing / printing, "exit" raises SystemExit, "loop" never ends;
\* the empty text and a JSON object text (a dict display) run without
\* drawing; any other text is a SyntaxError.
ExecOutcome(code) ==
  IF code \in {<<"draw">>, <<"x=1">>, <<"print">>, <<>>} \/ JsonLoads(code).ok THEN "ok"
  ELSE IF code = <<"exit">> THEN "baseexc"
  ELSE IF code = <<"loop">> THEN "hang"
  ELSE "exc"

ExecError(code) ==
  IF code \in {<<"raise">>, <<"draw_then_raise">>, <<"print_then_raise">>} THEN <<"boom">>
  ELSE IF code = <<"exit">> THEN <<"SystemExit">>
  ELSE <<"invalid syntax">>

\* what the program wrote to the redirected stdout before it ended
Prints(code) ==
  IF code \in {<<"print">>, <<"print_then_raise">>} THEN <<"hello">> ELSE <<>>

Draws(code) == code \in {<<"draw">>, <<"draw_then_raise">>}

\* pyplot's open figures (the last one is current) once exec has ended
FiguresAfterExec(code, figs) ==
  IF Draws(code) THEN Append(figs, <<"circuit">>) ELSE figs

\* plt.savefig works on plt.gcf(), which opens a blank figure when none is open
Gcf(figs) == IF figs = <<>> THEN <<<<>>>> ELSE figs

\* the figure plt.savefig serializes: the current one
SavedFigure(code, figs) ==
  LET open == Gcf(FiguresAfterExec(code, figs)) IN open[Len(open)]

\* pyplot's open figures when the call has ended: plt.close('all') is the
\* last statement of the with block, the except clause closes nothing
FiguresAfterRun(code, figs) ==
  IF ExecOutcome(code) = "ok" THEN <<>> ELSE FiguresAfterExec(code, figs)

\* the dict run_generated_code returns in a process whose open figures are
\* figs; defined when ExecOutcome is "ok" or "exc"
RunGeneratedCode(code, figs) ==
  IF ExecOutcome(code) = "ok"
    THEN [success |-> TRUE,
          image_base64 |-> <<"b64", "png", SavedFigure(code, figs)>>,
          stdout |-> Prints(code), stderr |-> <<>>,
          schemdraw_code |-> code]
    ELSE [success |-> FALSE,
          error |-> <<"Error executing schemdraw code: ">> \o ExecError(code),
          traceback |-> <<"Traceback (most recent call last):">> \o ExecError(code),
          schemdraw_code |-> code]

\* ------------------------------------------------------ Retrieval Engine
Min(a, b) == IF a <= b THEN a ELSE b

\* the page images convert_from_bytes yields: pages 1..N in document order
PageImages(pdf) == [i \in 1..pdf.pages |-> i]

Embedding(page) == <<"emb", page>>

\* batching that drops a trailing partial batch
BatchesOfWholeOnly(images, size) ==
  [b \in 1..(Len(images) \div size) |-> SubSeq(images, (b - 1) * size + 1, b * size)]

\* images[i : i + size] for i in range(0, len(images), size)
BatchesOf(images, size) ==
  LET n == Len(images)
      nb == (n + size - 1) \div size
  IN [b \in 1..nb |-> SubSeq(images, (b - 1) * size + 1, Min(b * size, n))]

Batches(images) == BatchesOf(images, PDF_BATCH_SIZE)

EmbedBatch(batch) == [j \in 1..Len(batch) |-> Embedding(batch[j])]

RECURSIVE EmbedBatches(_, _)
EmbedBatches(batches, upto) ==
  IF upto = 0 THEN <<>>
  ELSE EmbedBatches(batches, upto - 1) \o EmbedBatch(batches[upto])

\* index_pdf_from_bytes on a decodable document: (pdf_embeddings, images)
IndexPdf(pdf) ==
  LET images == PageImages(pdf)
  IN [embeddings |-> EmbedBatches(Batches(images), Len(Batches(images))),
      images |-> images]

\* list.sort(key=score, reverse=True): stable, descending
InsertDesc(sorted, x, scores) ==
  LET n == Cardinality({j \in 1..Len(sorted) : scores[sorted[j]] >= scores[x]})
  IN SubSeq(sorted, 1, n) \o <<x>> \o SubSeq(sorted, n + 1, Len(sorted))

RECURSIVE SortDesc(_, _)
SortDesc(scores, m) ==
  IF m = 0 THEN <<>> ELSE InsertDesc(SortDesc(scores, m - 1), m, scores)

\* processor.score_multi_vector(qs, ps): a tensor of shape
\* (number of queries, number of passages); row q holds the score of query q
\* against every page
ScoreMultiVector(qs, ps, rel) ==
  [q \in 1..Len(qs) |-> [p \in 1..Len(ps) |-> rel[p]]]

\* get_top_k_pages after scoring.  scored_indices pairs i with scores[i] for
\* i in range(len(scores)): one entry per ROW of scores, that is one per
\* query; get_top_k_pages scores the single query [query], so the sort key
\* of the only entry is never compared with another.
TopKPages(scores, images, k) ==
  LET scored_indices == SortDesc(scores, Len(scores))
      top_k_indices == SubSeq(scored_indices, 1, Min(k, Len(scored_indices)))
  IN [j \in 1..Len(top_k_indices) |-> images[top_k_indices[j]]]

\* ------------------------------------------------------- health-check loop
NewGate(url) == [url |-> url, i |-> 0, probes |-> 0, okSeen |-> FALSE,
                 slept |-> FALSE, last |-> "none", st |-> "looping"]

ProbeOutcomes == {"ok", "status", "error"}

\* one pass of `for i in range(HEALTH_CHECK_MAX_RETRIES)`: GET /health answers
\* 200 ("ok"), another status ("status"), or httpx raises ("error")
GateStep(g, o) ==
  LET p == [g EXCEPT !.probes = @ + 1, !.last = o]
  IN CASE o = "ok" ->
            [p EXCEPT !.okSeen = TRUE, !.slept = FALSE, !.st = "ready"]
       [] o = "status" ->
            [p EXCEPT !.i = @ + 1, !.slept = FALSE,
                      !.st = IF g.i + 1 = HEALTH_CHECK_MAX_RETRIES
                               THEN "exhausted" ELSE "looping"]
       [] o = "error" ->
            [p EXCEPT !.i = @ + 1, !.slept = TRUE,
                      !.st = IF g.i = HEALTH_CHECK_MAX_RETRIES - 1
                               THEN "raised" ELSE "looping"]

\* ------------------------------------------------------------ the request
Questions == {"find V across R2", "find I through R1"}

PdfInputs ==
  {[valid |-> FALSE, pages |-> 0]} \cup {[valid |-> TRUE, pages |-> n] : n \in 1..MaxPages}

\* user_images_bytes: None, or a list whose entries are bytes ("png") or not
UserImageInputs ==
  {[none |-> TRUE, items |-> <<>>]} \cup
  {[none |-> FALSE, items |-> s] :
     s \in UNION {[1..n -> {"png", "notbytes"}] : n \in 0..MaxUserImages}}

\* base64.b64encode(img_bytes).decode()
B64(img) == <<"b64", img>>

\* position of the first entry b64encode rejects, 0 when there is none
FirstBad(items) ==
  LET bad == {i \in 1..Len(items) : items[i] = "notbytes"}
  IN IF bad = {} THEN 0 ELSE CHOOSE i \in bad : \A j \in bad : i <= j

QwenUrl == "https://qwen.modal.run"
DeepseekUrl == "https://deepseek.modal.run"

\* ------------------------------------------------- chat-completion answers
Resp(transport, status, body, content) ==
  [transport |-> transport, status |-> status, body |-> body, content |-> content]

Solutions == {<<"V2 = 4 V">>}

Programs == {<<"draw">>, <<"raise">>, <<"exit">>, <<"loop">>}

\* a DeepSeek answer that follows the system instruction: {"code": "<p>"}
JsonAnswer(p) ==
  <<"{", "QUOTE", "code", "QUOTE", ":", "WS", "QUOTE">> \o p \o <<"QUOTE", "}">>

\* the other shapes an answer takes around a program p
OtherAnswers(p) ==
  { <<"{", "QUOTE", "other", "QUOTE", ":", "QUOTE">> \o p \o <<"QUOTE", "}">>,
    <<"FENCE", "python", "WS">> \o p \o <<"WS", "FENCE">>,
    <<"FENCE", "WS">> \o p \o <<"WS", "FENCE">>,
    <<"FENCE", "python", "WS">> \o p,
    p }

\* an answer that opens the code member with brackets nested without end
DeepAnswer == <<"{", "QUOTE", "code", "QUOTE", ":", "WS", "DEEP">>

DeepseekContents ==
  {JsonAnswer(p) : p \in Programs} \cup OtherAnswers(<<"draw">>) \cup {DeepAnswer}

\* what client.post(...) can bring back for a set of completion texts
ChatResponses(contents) ==
  {Resp(FALSE, s, "choices", c) : s \in {200, 500}, c \in contents} \cup
  {Resp(FALSE, 500, "no_choices", <<>>), Resp(FALSE, 200, "not_json", <<>>),
   Resp(TRUE, 0, "none", <<>>)}

\* history entry of a request: what was sent, the status and body that came
\* back, whether the stage returned a value from it, and that value
Answered(request, r, returned_value, value) ==
  [stage |-> request.stage, url |-> request.url, okSeen |-> request.okSeen,
   messages |-> request.messages,
   status |-> r.status, body |-> r.body, returned |-> returned_value, value |-> value]

\* response.json() and result["choices"][0]["message"]["content"] succeed
Readable(r) == ~r.transport /\ r.body = "choices"

ChatError(r) ==
  IF r.transport THEN <<"ReadTimeout">>
  ELSE IF r.body = "not_json" THEN <<"Expecting value: line 1 column 1 (char 0)">>
  ELSE <<"'choices'">>

\* hasattr(img, 'save'): img is a PIL image.  Page images are the numbers
\* 1, 2, ...; 0 stands for a list entry that is no image.
HasSave(img) == img >= 1

\* a message that puts the context pages before the user's images
QwenContentPagesFirst(query, images_b64, context_images) ==
  <<[type |-> "text", val |-> <<"QWEN_INSTRUCTIONS", "Question: ", query>>]>>
  \o (IF context_images # <<>>
        THEN <<[type |-> "text", val |-> <<"Relevant textbook pages for reference:">>]>>
             \o [j \in 1..Len(context_images) |->
                   [type |-> "image_url", val |-> <<"b64", "png", context_images[j]>>]]
        ELSE <<>>)
  \o [j \in 1..Len(images_b64) |-> [type |-> "image_url", val |-> images_b64[j]]]

\* analyze_question_with_qwen_url: the parts of the one user message
QwenContent(query, images_b64, context_images) ==
  <<[type |-> "text", val |-> <<"QWEN_INSTRUCTIONS", "Question: ", query>>]>>
  \o [j \in 1..Len(images_b64) |-> [type |-> "image_url", val |-> images_b64[j]]]
  \o (IF context_images # <<>>
        THEN LET pil == SelectSeq(context_images, HasSave)
             IN <<[type |-> "text", val |-> <<"Relevant textbook pages for reference:">>]>>
                \o [j \in 1..Len(pil) |->
                      [type |-> "image_url", val |-> <<"b64", "png", pil[j]>>]]
        ELSE <<>>)

\* messages = [{"role": "user", "content": content}]
QwenMessages(query, images_b64, context_images) ==
  <<[role |-> "user", val |-> QwenContent(query, images_b64, context_images)]>>

\* generate_circuit_code: the system and the user message
DeepseekMessages(query, solution) ==
  <<[role |-> "system", val |-> <<"Return ONLY valid JSON with a 'code' field">>],
    [role |-> "user", val |-> <<"DEEPSEEK_PROMPT_TEMPLATE", query>> \o solution]>>

\* ------------------------------------------------------------------ state
NoDict == [unset |-> TRUE]

NoTask == [st |-> "none", embeddings |-> <<>>, images |-> <<>>, exc |-> NoExc]

Init ==
  /\ user_query \in Questions
  /\ pdf_data \in PdfInputs
  /\ user_images_bytes \in UserImageInputs
  /\ pc = "images"
  /\ user_images_b64 = <<>>
  /\ pdf_task = NoTask
  /\ qwen_server_url = "unset"
  /\ deepseek_server_url = "unset"
  /\ relevant_pages = <<>>
  /\ textual_solution = <<>>
  /\ circuit_schemdraw = <<>>
  /\ circuit_result = NoDict
  /\ gate = NewGate("unset")
  /\ exc = NoExc
  /\ result = NoDict
  /\ started = {}
  /\ returned = {}
  /\ failed = {}
  /\ running = {}
  /\ overlap = FALSE
  /\ posts = <<>>
  /\ figures = <<>>
  /\ runs = <<>>
  /\ unit = NoDict

inputs == <<user_query, pdf_data, user_images_bytes>>
urls == <<qwen_server_url, deepseek_server_url>>
outputs == <<relevant_pages, textual_solution, circuit_schemdraw, circuit_result>>
aside == <<figures, runs, unit>>

\* a stage call is entered / comes back / raises
Enter(stage) ==
  /\ started' = started \cup {stage}
  /\ running' = running \cup {stage}
  /\ UNCHANGED <<returned, failed>>

Leave(stage) ==
  /\ returned' = returned \cup {stage}
  /\ running' = running \ {stage}
  /\ UNCHANGED <<started, failed>>

\* a failed scoring call that is made again instead of ending the try block
RaiseThenRetry(stage, e) ==
  /\ exc' = e
  /\ pc' = IF stage = "scoring" THEN "score_call" ELSE "raised"
  /\ failed' = failed \cup {stage}
  /\ running' = running \ {stage}
  /\ started' = started \cup {stage}
  /\ UNCHANGED returned

\* the call raises e inside the try block of solve_ee_problem
Raise(stage, e) ==
  /\ exc' = e
  /\ pc' = "raised"
  /\ failed' = failed \cup {stage}
  /\ running' = running \ {stage}
  /\ started' = started \cup {stage}
  /\ UNCHANGED returned

\* ------------------------------------------------- solve_ee_problem, step 1
PrepareImages ==
  /\ pc = "images"
  /\ user_images_bytes.none \/ FirstBad(user_images_bytes.items) = 0
  /\ user_images_b64' = [j \in 1..Len(user_images_bytes.items) |->
                           B64(user_images_bytes.items[j])]
  /\ pc' = "spawn"
  /\ started' = started \cup {"images"}
  /\ returned' = returned \cup {"images"}
  /\ UNCHANGED <<aside, inputs, pdf_task, urls, outputs, gate, exc, result, failed, running,
                 overlap, posts>>

PrepareImagesRaises ==
  /\ pc = "images"
  /\ ~user_images_bytes.none /\ FirstBad(user_images_bytes.items) # 0
  /\ user_images_b64' = [j \in 1..(FirstBad(user_images_bytes.items) - 1) |->
                           B64(user_images_bytes.items[j])]
  /\ Raise("images", Exc("Exception", <<"a bytes-like object is required, not 'str'">>))
  /\ UNCHANGED <<aside, inputs, pdf_task, urls, outputs, gate, result, overlap, posts>>

\* ------------------------------------- steps 2-3: spawn, resolve, join
SpawnIndexing ==
  /\ pc = "spawn"
  /\ pdf_task' = [NoTask EXCEPT !.st = "running"]
  /\ pc' = "resolve_qwen"
  /\ Enter("indexing")
  /\ UNCHANGED <<aside, inputs, user_images_b64, urls, outputs, gate, exc, result, overlap, posts>>

\* the spawned index_pdf_from_bytes runs in its own container
IndexingCompletes ==
  /\ pdf_task.st = "running"
  /\ pdf_data.valid
  /\ pdf_task' = [st |-> "done", embeddings |-> IndexPdf(pdf_data).embeddings,
                  images |-> IndexPdf(pdf_data).images, exc |-> NoExc]
  /\ Leave("indexing")
  /\ UNCHANGED <<aside, inputs, pc, user_images_b64, urls, outputs, gate, exc, result,
                 overlap, posts>>

IndexingRaises ==
  /\ pdf_task.st = "running"
  /\ ~pdf_data.valid
  /\ pdf_task' = [NoTask EXCEPT
                    !.st = "failed",
                    !.exc = Exc("Exception",
                                <<"Failed to process PDF: ", "Unable to get page count.">>)]
  /\ failed' = failed \cup {"indexing"}
  /\ running' = running \ {"indexing"}
  /\ UNCHANGED <<aside, inputs, pc, user_images_b64, urls, outputs, gate, exc, result,
                 started, returned, overlap, posts>>

ResolveQwenUrl ==
  /\ pc = "resolve_qwen"
  /\ qwen_server_url' = QwenUrl
  /\ pc' = "resolve_deepseek"
  /\ started' = started \cup {"resolve_qwen"}
  /\ returned' = returned \cup {"resolve_qwen"}
  /\ overlap' = (overlap \/ pdf_task.st = "running")
  /\ UNCHANGED <<aside, inputs, user_images_b64, pdf_task, deepseek_server_url, outputs, gate,
                 exc, result, failed, running, posts>>

ResolveQwenUrlRaises ==
  /\ pc = "resolve_qwen"
  /\ Raise("resolve_qwen", Exc("Exception", <<"Lookup failed for serve_qwen">>))
  /\ UNCHANGED <<aside, inputs, user_images_b64, pdf_task, urls, outputs, gate, result,
                 overlap, posts>>

ResolveDeepseekUrl ==
  /\ pc = "resolve_deepseek"
  /\ deepseek_server_url' = DeepseekUrl
  /\ pc' = "join"
  /\ started' = started \cup {"resolve_deepseek"}
  /\ returned' = returned \cup {"resolve_deepseek"}
  /\ overlap' = (overlap \/ pdf_task.st = "running")
  /\ UNCHANGED <<aside, inputs, user_images_b64, pdf_task, qwen_server_url, outputs, gate,
                 exc, result, failed, running, posts>>

ResolveDeepseekUrlRaises ==
  /\ pc = "resolve_deepseek"
  /\ Raise("resolve_deepseek", Exc("Exception", <<"Lookup failed for serve_deepseek">>))
  /\ UNCHANGED <<aside, inputs, user_images_b64, pdf_task, urls, outputs, gate, result,
                 overlap, posts>>

\* a join that does not wait for the spawned call
JoinReadyNoWait == TRUE

\* pdf_task.get(): blocks until the spawned call has ended
JoinReady == pdf_task.st \in {"done", "failed"}

\* a join that drops the exception of the spawned call
JoinRaisesNever == FALSE

\* pdf_task.get() raises what the spawned call raised
JoinRaises == pdf_task.st = "failed"

JoinIndexing ==
  /\ pc = "join"
  /\ JoinReady
  /\ IF JoinRaises
       THEN /\ pc' = "raised"
            /\ exc' = pdf_task.exc
       ELSE /\ pc' = "score_call"
            /\ UNCHANGED <<exc>>
  /\ UNCHANGED <<aside, inputs, user_images_b64, pdf_task, urls, outputs, gate, result,
                 started, returned, failed, running, overlap, posts>>

\* ------------------------------------------------------- get_top_k_pages
ScoringCall ==
  /\ pc = "score_call"
  /\ pc' = "score_wait"
  /\ Enter("scoring")
  /\ UNCHANGED <<aside, inputs, user_images_b64, pdf_task, urls, outputs, gate, exc, result,
                 overlap, posts>>

ScoringReturns ==
  /\ pc = "score_wait"
  /\ \E rel \in [1..Len(pdf_task.embeddings) -> 0..MaxScore] :
       relevant_pages' = TopKPages(ScoreMultiVector(<<user_query>>, pdf_task.embeddings, rel),
                                   pdf_task.images, TopK)
  /\ pc' = "qwen_call"
  /\ Leave("scoring")
  /\ UNCHANGED <<aside, inputs, user_images_b64, pdf_task, urls, textual_solution,
                 circuit_schemdraw, circuit_result, gate, exc, result, overlap, posts>>

ScoringRaises ==
  /\ pc = "score_wait"
  /\ Raise("scoring", Exc("Exception",
                          <<"Failed to retrieve relevant pages: ", "CUDA error">>))
  /\ UNCHANGED <<aside, inputs, user_images_b64, pdf_task, urls, outputs, gate, result,
                 overlap, posts>>

\* ------------------------------------------ analyze_question_with_qwen_url
QwenCall ==
  /\ pc = "qwen_call"
  /\ pc' = "qwen_gate"
  /\ gate' = NewGate(qwen_server_url)
  /\ Enter("reasoning")
  /\ UNCHANGED <<aside, inputs, user_images_b64, pdf_task, urls, outputs, exc, result,
                 overlap, posts>>

\* one pass of the health-check loop, lines 50-62
QwenProbe ==
  /\ pc = "qwen_gate"
  /\ gate.st = "looping"
  /\ \E o \in ProbeOutcomes :
       /\ gate' = GateStep(gate, o)
       /\ IF GateStep(gate, o).st = "raised"
            THEN Raise("reasoning", Exc("Exception", <<"Qwen server failed to start">>))
            ELSE /\ pc' = IF GateStep(gate, o).st = "looping" THEN "qwen_gate" ELSE "qwen_post"
                 /\ UNCHANGED <<exc, started, returned, failed, running>>
  /\ UNCHANGED <<aside, inputs, user_images_b64, pdf_task, urls, outputs, result, overlap, posts>>

QwenRequest ==
  [stage |-> "reasoning", url |-> gate.url, okSeen |-> gate.okSeen,
   messages |-> QwenMessages(user_query, user_images_b64, relevant_pages)]

\* lines 91-101: the POST and the first choice's text; the locals of the call end with it
QwenPostReturns ==
  /\ pc = "qwen_post"
  /\ \E r \in ChatResponses(Solutions) :
       /\ Readable(r)
       /\ textual_solution' = r.content
       /\ posts' = Append(posts, Answered(QwenRequest, r, TRUE, r.content))
  /\ gate' = NewGate("unset")
  /\ pc' = "deepseek_call"
  /\ Leave("reasoning")
  /\ UNCHANGED <<aside, inputs, user_images_b64, pdf_task, urls, relevant_pages,
                 circuit_schemdraw, circuit_result, exc, result, overlap>>

QwenPostRaises ==
  /\ pc = "qwen_post"
  /\ \E r \in ChatResponses(Solutions) :
       /\ ~Readable(r)
       /\ Raise("reasoning", Exc("Exception", ChatError(r)))
       /\ posts' = Append(posts, Answered(QwenRequest, r, FALSE, <<>>))
  /\ gate' = NewGate("unset")
  /\ UNCHANGED <<aside, inputs, user_images_b64, pdf_task, urls, outputs, result, overlap>>

\* ---------------------------------------------------- generate_circuit_code
\* a Reasoning call that is started and not awaited
CodegenMayStartEarly == pc \in {"qwen_gate", "qwen_post", "deepseek_call"}

\* .remote() blocks: line 100 runs once the call of line 91 has returned
CodegenMayStart == pc = "deepseek_call"

DeepseekCall ==
  /\ CodegenMayStart
  /\ pc' = "deepseek_gate"
  /\ gate' = NewGate(deepseek_server_url)
  /\ Enter("codegen")
  /\ UNCHANGED <<aside, inputs, user_images_b64, pdf_task, urls, outputs, exc, result,
                 overlap, posts>>

\* one pass of the health-check loop, lines 49-61
DeepseekProbe ==
  /\ pc = "deepseek_gate"
  /\ gate.st = "looping"
  /\ \E o \in ProbeOutcomes :
       /\ gate' = GateStep(gate, o)
       /\ IF GateStep(gate, o).st = "raised"
            THEN Raise("codegen", Exc("Exception", <<"DeepSeek server failed to start">>))
            ELSE /\ pc' = IF GateStep(gate, o).st = "looping"
                            THEN "deepseek_gate" ELSE "deepseek_post"
                 /\ UNCHANGED <<exc, started, returned, failed, running>>
  /\ UNCHANGED <<aside, inputs, user_images_b64, pdf_task, urls, outputs, result, overlap, posts>>

DeepseekRequest ==
  [stage |-> "codegen", url |-> gate.url, okSeen |-> gate.okSeen,
   messages |-> DeepseekMessages(user_query, textual_solution)]

\* lines 76-115: the POST, the first choice's text, the extraction
DeepseekPostReturns ==
  /\ pc = "deepseek_post"
  /\ \E r \in ChatResponses(DeepseekContents) :
       /\ Readable(r)
       /\ ~ExtractRaises(r.content)
       /\ circuit_schemdraw' = ExtractCode(r.content)
       /\ posts' = Append(posts, Answered(DeepseekRequest, r, TRUE, ExtractCode(r.content)))
  /\ gate' = NewGate("unset")
  /\ pc' = "compile_call"
  /\ Leave("codegen")
  /\ UNCHANGED <<aside, inputs, user_images_b64, pdf_task, urls, relevant_pages,
                 textual_solution, circuit_result, exc, result, overlap>>

DeepseekPostRaises ==
  /\ pc = "deepseek_post"
  /\ \E r \in ChatResponses(DeepseekContents) :
       /\ ~Readable(r) \/ ExtractRaises(r.content)
       /\ Raise("codegen", IF Readable(r) THEN ExtractError
                                         ELSE Exc("Exception", ChatError(r)))
       /\ posts' = Append(posts, Answered(DeepseekRequest, r, FALSE, <<>>))
  /\ gate' = NewGate("unset")
  /\ UNCHANGED <<aside, inputs, user_images_b64, pdf_task, urls, outputs, result, overlap>>

\* ------------------------------------------- run_generated_code.remote(...)
CompileCall ==
  /\ pc = "compile_call"
  /\ pc' = "compile_wait"
  /\ Enter("compile")
  /\ UNCHANGED <<aside, inputs, user_images_b64, pdf_task, urls, outputs, gate, exc, result,
                 overlap, posts>>

\* the program ran, or raised an Exception that run_generated_code caught
CompileReturns ==
  /\ pc = "compile_wait"
  /\ ExecOutcome(circuit_schemdraw) \in {"ok", "exc"}
  /\ circuit_result' = RunGeneratedCode(circuit_schemdraw, figures)
  /\ figures' = FiguresAfterRun(circuit_schemdraw, figures)
  /\ pc' = "respond"
  /\ Leave("compile")
  /\ UNCHANGED <<runs, unit, inputs, user_images_b64, pdf_task, urls, relevant_pages,
                 textual_solution, circuit_schemdraw, gate, exc, result, overlap, posts>>

\* the exception the call raises in solve_ee_problem when run_generated_code
\* does not return: one its `except Exception` lets pass, or the timeout of
\* the function (timeout=10*60)
CompileFailure(code) ==
  IF ExecOutcome(code) = "baseexc"
    THEN Exc("BaseException", ExecError(code))
    ELSE Exc("Exception", <<"FunctionTimeoutError">>)

CompileRaises ==
  /\ pc = "compile_wait"
  /\ ExecOutcome(circuit_schemdraw) \in {"baseexc", "hang"}
  /\ Raise("compile", CompileFailure(circuit_schemdraw))
  /\ figures' = FiguresAfterRun(circuit_schemdraw, figures)
  /\ UNCHANGED <<runs, unit, inputs, user_images_b64, pdf_task, urls, outputs, gate, result,
                 overlap, posts>>

\* -------------------------------------------- step 7 and the except clause
\* an envelope that reports no program when the program did not run
SuccessEnvelopeValidated ==
  [success |-> TRUE,
   question |-> user_query,
   textual_solution |-> textual_solution,
   circuit_diagram |-> circuit_result,
   metadata |-> [num_relevant_pages |-> Len(relevant_pages),
                 has_user_images |-> Len(user_images_b64) > 0,
                 generated_code |-> IF circuit_result.success THEN circuit_schemdraw ELSE <<>>,
                 total_processing_time |-> "elapsed"]]

SuccessEnvelope ==
  [success |-> TRUE,
   question |-> user_query,
   textual_solution |-> textual_solution,
   circuit_diagram |-> circuit_result,
   metadata |-> [num_relevant_pages |-> Len(relevant_pages),
                 has_user_images |-> Len(user_images_b64) > 0,
                 generated_code |-> circuit_schemdraw,
                 total_processing_time |-> "elapsed"]]

FailureEnvelope(e) ==
  [success |-> FALSE, error |-> StrOf(e), question |-> user_query]

Respond ==
  /\ pc = "respond"
  /\ result' = SuccessEnvelope
  /\ pc' = "returned"
  /\ UNCHANGED <<aside, inputs, user_images_b64, pdf_task, urls, outputs, gate, exc,
                 started, returned, failed, running, overlap, posts>>

\* `except Exception as e` catches e
Catches(e) == e.cls = "Exception"

ExceptHandler ==
  /\ pc = "raised"
  /\ Catches(exc)
  /\ result' = FailureEnvelope(exc)
  /\ pc' = "returned"
  /\ UNCHANGED <<aside, inputs, user_images_b64, pdf_task, urls, outputs, gate, exc,
                 started, returned, failed, running, overlap, posts>>

\* the exception leaves solve_ee_problem
Propagate ==
  /\ pc = "raised"
  /\ ~Catches(exc)
  /\ pc' = "escaped"
  /\ UNCHANGED <<aside, inputs, user_images_b64, pdf_task, urls, outputs, gate, exc, result,
                 started, returned, failed, running, overlap, posts>>

Next ==
  \/ PrepareImages \/ PrepareImagesRaises
  \/ SpawnIndexing \/ IndexingCompletes \/ IndexingRaises
  \/ ResolveQwenUrl \/ ResolveQwenUrlRaises
  \/ ResolveDeepseekUrl \/ ResolveDeepseekUrlRaises
  \/ JoinIndexing
  \/ ScoringCall \/ ScoringReturns \/ ScoringRaises
  \/ QwenCall \/ QwenProbe \/ QwenPostReturns \/ QwenPostRaises
  \/ DeepseekCall \/ DeepseekProbe \/ DeepseekPostReturns \/ DeepseekPostRaises
  \/ CompileCall \/ CompileReturns \/ CompileRaises
  \/ Respond \/ ExceptHandler \/ Propagate

Spec == Init /\ [][Next]_vars

\* ================================================================= claims
Stages == {"images", "indexing", "resolve_qwen", "resolve_deepseek",
           "scoring", "reasoning", "codegen", "compile"}

Upstream == Stages \ {"compile"}

Ended == pc \in {"returned", "escaped"}

\* C1: every request ends with an envelope carrying a success flag; no
\* exception raised by a stage ever leaves solve_ee_problem.
C1_NoExceptionEscapes ==
  /\ pc # "escaped"
  /\ pc = "returned" => "success" \in DOMAIN result

\* C2: the envelope has success=false exactly when a stage upstream
\* of the Diagram Compiler raised; it then holds the triggering error's
\* message and no solution, diagram or metadata field.
C2_FailureIffUpstreamRaised ==
  pc = "returned" =>
    /\ (result.success = FALSE) <=> (failed \cap Upstream # {})
    /\ result.success = FALSE =>
         /\ result.error = StrOf(exc)
         /\ DOMAIN result \cap {"textual_solution", "circuit_diagram", "metadata"} = {}

\* C3: when the diagram program raises in run_generated_code, the request
\* ends with success=true, the solution text, and a diagram field that is a
\* structured failure with error and traceback.
C3_DiagramFailureNotFatal ==
  ("compile" \in started /\ Ended /\ ExecOutcome(circuit_schemdraw) \in {"exc", "baseexc"}) =>
    /\ pc = "returned"
    /\ result.success = TRUE
    /\ result.textual_solution = textual_solution
    /\ result.circuit_diagram.success = FALSE
    /\ {"error", "traceback"} \subseteq DOMAIN result.circuit_diagram

\* the stages that precede a stage in the pipeline order (indexing and
\* endpoint resolution are unordered)
PreJoin == {"images", "indexing", "resolve_qwen", "resolve_deepseek"}

Before(s) ==
  CASE s = "images" -> {}
    [] s = "indexing" -> {"images"}
    [] s = "resolve_qwen" -> {"images"}
    [] s = "resolve_deepseek" -> {"images", "resolve_qwen"}
    [] s = "scoring" -> PreJoin
    [] s = "reasoning" -> PreJoin \cup {"scoring"}
    [] s = "codegen" -> PreJoin \cup {"scoring", "reasoning"}
    [] s = "compile" -> PreJoin \cup {"scoring", "reasoning", "codegen"}

\* C4: no stage is started once a stage before it in the pipeline order has
\* failed, and after a failure upstream of the Diagram Compiler the next
\* step of the orchestrator is the failed envelope.
C4_NoStageAfterFailure ==
  [][ /\ \A s \in Stages :
           (s \in started' /\ s \notin started) => (Before(s) \cap failed = {})
      /\ (pc = "raised" /\ "compile" \notin failed) =>
           (started' = started /\ pc' \in {"raised", "returned"})
      /\ (pc' = "returned" /\ pc = "raised") => result'.success = FALSE ]_vars

C4_Witness ==
  /\ pc = "returned"
  /\ "indexing" \in failed
  /\ started \cap {"scoring", "reasoning", "codegen", "compile"} = {}
  /\ result.success = FALSE

PostJoin == {"scoring", "reasoning", "codegen", "compile"}

\* C5: scoring starts only after indexing returned, Reasoning only after
\* scoring returned, Code-Generation only after Reasoning returned, the
\* Diagram Compiler only after Code-Generation returned; at most one of
\* these stages is in progress at any time.
C5_StagesSequential ==
  /\ Cardinality(running \cap PostJoin) <= 1
  /\ "scoring" \in started => "indexing" \in returned
  /\ "reasoning" \in started => "scoring" \in returned
  /\ "codegen" \in started => "reasoning" \in returned
  /\ "compile" \in started => "codegen" \in returned

C5_Witness ==
  /\ running = {"compile"}
  /\ {"indexing", "scoring", "reasoning", "codegen"} \subseteq returned

\* C6: indexing is launched before endpoint resolution and may run during
\* it; scoring is invoked only after indexing has completed and both URLs
\* have been resolved.
C6_JoinBeforeScoring ==
  /\ (started \cap {"resolve_qwen", "resolve_deepseek"} # {}) => "indexing" \in started
  /\ "scoring" \in started =>
       /\ pdf_task.st = "done"
       /\ {"indexing", "resolve_qwen", "resolve_deepseek"} \subseteq returned
       /\ qwen_server_url = QwenUrl /\ deepseek_server_url = DeepseekUrl

C6_Witness ==
  /\ overlap
  /\ "scoring" \in started

GatePassed == pc \in {"qwen_post", "deepseek_post"}

\* C7: the gate reports ready after exactly i probes when probe i is the
\* first success, and when no probe succeeds it fails, after exactly
\* HEALTH_CHECK_MAX_RETRIES probes.
C7_GateExactAttempts ==
  /\ GatePassed => (gate.okSeen /\ gate.last = "ok" /\ gate.probes = gate.i + 1)
  /\ gate.st = "raised" => (~gate.okSeen /\ gate.probes = HEALTH_CHECK_MAX_RETRIES)

\* C8: when every probe is not-ready, by transport error or by status, the
\* gate ends in a failure raised to the caller; it never lets the stage go on
\* without a success response.
C8_AllNotReadyRaises ==
  (gate.st # "looping" /\ ~gate.okSeen) =>
    /\ gate.st = "raised"
    /\ exc.msg \in {<<"Qwen server failed to start">>, <<"DeepSeek server failed to start">>}

\* C9: a chat-completion request goes to an endpoint only after a probe of
\* that endpoint succeeded in the same stage invocation.
C9_PostOnlyAfterHealthy ==
  \A k \in 1..Len(posts) : posts[k].okSeen

\* C10: after every not-ready probe the gate sleeps before the next probe.
C10_SleepBetweenProbes ==
  (pc \in {"qwen_gate", "deepseek_gate"} /\ gate.st = "looping" /\ gate.probes >= 1)
    => gate.slept

\* ===================================================== side specifications
\* The specifications below study one function at a time; no request is in
\* flight in them, so every variable of solve_ee_problem keeps the value it
\* has here and no action of Next is enabled.
pipeline == <<user_query, pdf_data, user_images_bytes, pc, user_images_b64, pdf_task,
              qwen_server_url, deepseek_server_url, relevant_pages, textual_solution,
              circuit_schemdraw, circuit_result, gate, exc, result,
              started, returned, failed, running, overlap, posts>>

NoRequest ==
  /\ user_query = "none"
  /\ pdf_data = [valid |-> FALSE, pages |-> 0]
  /\ user_images_bytes = [none |-> TRUE, items |-> <<>>]
  /\ pc = "no_request"
  /\ user_images_b64 = <<>>
  /\ pdf_task = NoTask
  /\ qwen_server_url = "unset"
  /\ deepseek_server_url = "unset"
  /\ relevant_pages = <<>>
  /\ textual_solution = <<>>
  /\ circuit_schemdraw = <<>>
  /\ circuit_result = NoDict
  /\ gate = NewGate("unset")
  /\ exc = NoExc
  /\ result = NoDict
  /\ started = {}
  /\ returned = {}
  /\ failed = {}
  /\ running = {}
  /\ overlap = FALSE
  /\ posts = <<>>

\* ------------------------------------- run_generated_code, call after call
\* One container process serves run_generated_code calls one after another;
\* pyplot's figures live in the process and outlive a call.
MaxRuns == 3

CompilerPrograms ==
  {<<"draw">>, <<"x=1">>, <<"print">>, <<"raise">>, <<"draw_then_raise">>,
   <<"print_then_raise">>, <<"other">>, <<"exit">>}

InitCompiler ==
  /\ NoRequest
  /\ figures = <<>>
  /\ runs = <<>>
  /\ unit = NoDict

\* a call that comes back with a dict
RunReturns ==
  /\ Len(runs) < MaxRuns
  /\ \E code \in CompilerPrograms :
       /\ ExecOutcome(code) \in {"ok", "exc"}
       /\ runs' = Append(runs, [code |-> code, returned |-> TRUE,
                                result |-> RunGeneratedCode(code, figures),
                                open |-> FiguresAfterRun(code, figures)])
       /\ figures' = FiguresAfterRun(code, figures)
  /\ UNCHANGED <<pipeline, unit>>

\* a call whose program raises what `except Exception` lets pass: the
\* exception leaves the function with no dict returned; the process goes on
\* serving calls, its figures as the call left them
RunRaises ==
  /\ Len(runs) < MaxRuns
  /\ \E code \in CompilerPrograms :
       /\ ExecOutcome(code) = "baseexc"
       /\ runs' = Append(runs, [code |-> code, returned |-> FALSE,
                                result |-> NoDict,
                                open |-> FiguresAfterRun(code, figures)])
       /\ figures' = FiguresAfterRun(code, figures)
  /\ UNCHANGED <<pipeline, unit>>

NextCompiler == RunReturns \/ RunRaises

SpecCompiler == InitCompiler /\ [][NextCompiler]_vars

\* C11: after each call of run_generated_code has returned, with success true
\* or false, no figure is open in pyplot's global state.
C11_FiguresResetAfterEveryCall ==
  \A i \in 1..Len(runs) : runs[i].returned => runs[i].open = <<>>

\* C12: a call's result depends on its program text only, not on the calls
\* made earlier in the process: it is the result the program gives in a
\* process that has no figure open.
C12_NoLeakageBetweenCalls ==
  \A i \in 1..Len(runs) :
    runs[i].returned => runs[i].result = RunGeneratedCode(runs[i].code, <<>>)

\* C13: every call ends with one of two shapes: a program that does not raise
\* gives success = TRUE with a non-empty image and neither error nor
\* traceback; a program that raises gives success = FALSE with a non-empty
\* error and traceback and no image.
C13_ResultShapes ==
  \A i \in 1..Len(runs) :
    LET r == runs[i].result
        raised == ExecOutcome(runs[i].code) \in {"exc", "baseexc"}
    IN /\ "success" \in DOMAIN r
       /\ ~raised => /\ r.success
                     /\ DOMAIN r \cap {"error", "traceback"} = {}
                     /\ "image_base64" \in DOMAIN r /\ r.image_base64 # <<>>
       /\ raised => /\ ~r.success
                    /\ "image_base64" \notin DOMAIN r
                    /\ "error" \in DOMAIN r /\ r.error # <<>>
                    /\ "traceback" \in DOMAIN r /\ r.traceback # <<>>

\* C14: when the program raises after writing to standard output, the
\* failure result carries the captured output next to error and traceback.
C14_FailureCarriesCapturedOutput ==
  \A i \in 1..Len(runs) :
    LET r == runs[i].result IN
    (runs[i].returned /\ ~r.success /\ Prints(runs[i].code) # <<>>)
      => /\ "stdout" \in DOMAIN r
         /\ r.stdout = Prints(runs[i].code)

\* ------------------------------------------------- get_top_k_pages alone
MaxK == 4

\* unit = [n, k, rel]: a document of n pages, the k asked for, and rel[p],
\* the late-interaction score of the query against page p
InitTopK ==
  /\ NoRequest
  /\ figures = <<>>
  /\ runs = <<>>
  /\ \E n \in 1..MaxPages, k \in 0..MaxK :
       \E rel \in [1..n -> 0..MaxScore] :
         unit = [fn |-> "get_top_k_pages", called |-> FALSE, n |-> n, k |-> k, rel |-> rel]

GetTopKPages ==
  /\ "fn" \in DOMAIN unit /\ unit.fn = "get_top_k_pages" /\ ~unit.called
  /\ LET index == IndexPdf([valid |-> TRUE, pages |-> unit.n])
         scores == ScoreMultiVector(<<"query">>, index.embeddings, unit.rel)
     IN unit' = [fn |-> "get_top_k_pages", called |-> TRUE, n |-> unit.n, k |-> unit.k,
                 rel |-> unit.rel, pages |-> TopKPages(scores, index.images, unit.k)]
  /\ UNCHANGED <<pipeline, figures, runs>>

NextTopK == GetTopKPages

SpecTopK == InitTopK /\ [][NextTopK]_vars

\* C15: for a document of N pages and every k >= 0, get_top_k_pages returns
\* exactly min(k, N) page images.
C15_ReturnsMinKN ==
  ("called" \in DOMAIN unit /\ unit.fn = "get_top_k_pages" /\ unit.called)
    => Len(unit.pages) = Min(unit.k, unit.n)

\* C16: the returned pages are in descending score order, pages of equal
\* score in document order, and no page left out scores higher than a
\* returned page.
C16_HighestScoringStableOrder ==
  ("called" \in DOMAIN unit /\ unit.fn = "get_top_k_pages" /\ unit.called)
    => LET out == unit.pages
           rel == unit.rel
           got == {out[j] : j \in 1..Len(out)}
       IN /\ \A a, b \in 1..Len(out) :
               a < b => \/ rel[out[a]] > rel[out[b]]
                        \/ rel[out[a]] = rel[out[b]] /\ out[a] < out[b]
          /\ \A p \in (1..unit.n) \ got : \A q \in got : rel[p] <= rel[q]

\* --------------------------------------------- index_pdf_from_bytes alone
MaxDocPages == 6
MaxBatch == 5

\* unit holds the locals of index_pdf_from_bytes for a document of n pages
\* run with batch size `size`: images, batches, the loop position i (number
\* of batches processed) and pdf_embeddings
InitIndex ==
  /\ NoRequest
  /\ figures = <<>>
  /\ runs = <<>>
  /\ \E n \in 0..MaxDocPages, size \in 1..MaxBatch :
       LET images == PageImages([valid |-> TRUE, pages |-> n])
       IN unit = [fn |-> "index_pdf_from_bytes", n |-> n, size |-> size,
                  images |-> images, batches |-> BatchesOf(images, size),
                  i |-> 0, pdf_embeddings |-> <<>>, done |-> FALSE]

\* one iteration of `for i, batch in enumerate(batches)`
IndexBatch ==
  /\ "fn" \in DOMAIN unit /\ unit.fn = "index_pdf_from_bytes"
  /\ ~unit.done /\ unit.i < Len(unit.batches)
  /\ unit' = [unit EXCEPT !.i = @ + 1,
                          !.pdf_embeddings = @ \o EmbedBatch(unit.batches[unit.i + 1])]
  /\ UNCHANGED <<pipeline, figures, runs>>

\* return pdf_embeddings, images
IndexReturn ==
  /\ "fn" \in DOMAIN unit /\ unit.fn = "index_pdf_from_bytes"
  /\ ~unit.done /\ unit.i = Len(unit.batches)
  /\ unit' = [unit EXCEPT !.done = TRUE]
  /\ UNCHANGED <<pipeline, figures, runs>>

NextIndex == IndexBatch \/ IndexReturn

SpecIndex == InitIndex /\ [][NextIndex]_vars

RECURSIVE Flatten(_, _)
Flatten(seqs, upto) ==
  IF upto = 0 THEN <<>> ELSE Flatten(seqs, upto - 1) \o seqs[upto]

\* C17: for every document of N pages and every batch size >= 1 the call
\* returns N embeddings and N page images, the i-th embedding computed from
\* the i-th page; the batches have at most `size` pages each and, laid end to
\* end in batch order, are the page sequence.
C17_IndexPreservesPages ==
  ("fn" \in DOMAIN unit /\ unit.fn = "index_pdf_from_bytes")
    => /\ \A b \in 1..Len(unit.batches) :
            Len(unit.batches[b]) >= 1 /\ Len(unit.batches[b]) <= unit.size
       /\ Flatten(unit.batches, Len(unit.batches)) = unit.images
       /\ unit.pdf_embeddings =
            [j \in 1..Len(Flatten(unit.batches, unit.i)) |-> Embedding(unit.images[j])]
       /\ unit.done =>
            /\ Len(unit.pdf_embeddings) = unit.n
            /\ Len(unit.images) = unit.n
            /\ \A j \in 1..unit.n : unit.pdf_embeddings[j] = Embedding(unit.images[j])
            /\ unit.size = PDF_BATCH_SIZE =>
                 [embeddings |-> unit.pdf_embeddings, images |-> unit.images]
                   = IndexPdf([valid |-> TRUE, pages |-> unit.n])

\* a document of several batches, the last one partial, has been indexed
C17_Witness ==
  /\ "fn" \in DOMAIN unit /\ unit.fn = "index_pdf_from_bytes"
  /\ unit.done /\ unit.n = 5 /\ unit.size = 2 /\ unit.i = 3

\* ------------------------------ generate_circuit_code: the extraction alone
MaxLen == 4

RECURSIVE TextsUpTo(_, _)
TextsUpTo(alphabet, n) ==
  IF n = 0 THEN {<<>>}
  ELSE LET shorter == TextsUpTo(alphabet, n - 1)
       IN shorter \cup {Append(t, a) : t \in shorter, a \in alphabet}

\* the three literal responses: {"code": "x=1"}, a python-tagged fence around
\* x=1 on its own line, and the bare x=1
Fixtures ==
  {<<"{", "QUOTE", "code", "QUOTE", ":", "WS", "QUOTE", "x=1", "QUOTE", "}">>,
   <<"FENCE", "python", "WS", "x=1", "WS", "FENCE">>,
   <<"x=1">>}

\* message contents the endpoint may answer with
\* answers that begin with { and are no JSON text
BrokenJson ==
  {<<"{", "x=1">>, <<"{", "WS", "FENCE", "x=1", "FENCE">>,
   <<"{", "QUOTE", "code", "QUOTE", ":", "QUOTE", "x=1", "QUOTE">>,
   <<"{", "QUOTE", "other", "QUOTE", ":", "DEEP">>, <<"{", "DEEP">>}

Contents ==
  TextsUpTo({"FENCE", "python", "x=1", "WS"}, MaxLen) \cup Fixtures \cup DeepseekContents
    \cup BrokenJson

InitExtract ==
  /\ NoRequest
  /\ figures = <<>>
  /\ runs = <<>>
  /\ \E content \in Contents :
       unit = [fn |-> "extract", called |-> FALSE, content |-> content]

\* lines 91-115 of generate_circuit_code on the content of the response
Extract ==
  /\ "fn" \in DOMAIN unit /\ unit.fn = "extract" /\ ~unit.called
  /\ ~ExtractRaises(unit.content)
  /\ unit' = [fn |-> "extract", called |-> TRUE, raised |-> FALSE,
              content |-> unit.content, code |-> ExtractCode(unit.content)]
  /\ UNCHANGED <<pipeline, figures, runs>>

\* the exception of json.loads leaves the extraction
ExtractFails ==
  /\ "fn" \in DOMAIN unit /\ unit.fn = "extract" /\ ~unit.called
  /\ ExtractRaises(unit.content)
  /\ unit' = [fn |-> "extract", called |-> TRUE, raised |-> TRUE,
              content |-> unit.content, error |-> ExtractError]
  /\ UNCHANGED <<pipeline, figures, runs>>

NextExtract == Extract \/ ExtractFails

SpecExtract == InitExtract /\ [][NextExtract]_vars

\* The chain that C18 states, not the code (the code is ExtractCode and
\* FenceFallback above, whose fence branches are an if/elif): four
\* strategies tried in priority, each yielding a text or no match:
\* (a) the code value of a JSON object, (b) the trimmed text between the
\* first tagged opener and the last fence marker when that marker lies
\* behind the opener, (c) the trimmed text between the first and the last
\* fence marker when they are two markers, (d) the response itself.
NoMatch == [match |-> FALSE, text |-> <<>>]
Match(text) == [match |-> TRUE, text |-> text]

StrategyJson(content) ==
  IF IsTok(Strip(content), 1, "{") /\ HasCodeKey(JsonLoads(content))
    THEN Match(JsonLoads(content).val) ELSE NoMatch

StrategyTaggedFence(content) ==
  LET opener == Find(content, <<"FENCE", "python">>)
      last == RFind(content, <<"FENCE">>)
  IN IF opener # 0 /\ last > opener + 2
       THEN Match(Strip(Slice(content, opener + 2, last))) ELSE NoMatch

StrategyAnyFence(content) ==
  LET first == Find(content, <<"FENCE">>)
      last == RFind(content, <<"FENCE">>)
  IN IF first # 0 /\ last > first
       THEN Match(Strip(Slice(content, first + 1, last))) ELSE NoMatch

FirstThatApplies(content) ==
  IF StrategyJson(content).match THEN StrategyJson(content).text
  ELSE IF StrategyTaggedFence(content).match THEN StrategyTaggedFence(content).text
  ELSE IF StrategyAnyFence(content).match THEN StrategyAnyFence(content).text
  ELSE content

\* C18: the extracted code is the result of the first of the four strategies
\* that applies; the three literal responses extract to x=1.
C18_FirstStrategyThatApplies ==
  ("fn" \in DOMAIN unit /\ unit.fn = "extract" /\ unit.called /\ ~unit.raised)
    => /\ unit.code = FirstThatApplies(unit.content)
       /\ unit.content \in Fixtures => unit.code = <<"x=1">>

\* ------------------------------------------------ claims on the whole run
\* C19: a chat stage returns no value from an answer whose status is not
\* success or whose body lacks choices/message/content: every request that
\* was answered so ended with the stage raising.
C19_ErrorAnswerNeverReturned ==
  \A i \in 1..Len(posts) :
    (posts[i].status # 200 \/ posts[i].body # "choices") => ~posts[i].returned

\* C20: when solve_ee_problem returns success = TRUE, the envelope has the
\* question, the solution text, the diagram result and the metadata,
\* num_relevant_pages is the number of pages scoring returned and is
\* min(3, N) for the document's N pages, and the diagram result has a
\* non-empty image when the program succeeded.
C20_SuccessEnvelopeContents ==
  (pc = "returned" /\ result.success)
    => /\ DOMAIN result = {"success", "question", "textual_solution",
                           "circuit_diagram", "metadata"}
       /\ result.question = user_query
       /\ result.textual_solution = textual_solution
       /\ result.circuit_diagram = circuit_result
       /\ result.metadata.num_relevant_pages = Len(relevant_pages)
       /\ result.metadata.num_relevant_pages = Min(TopK, pdf_data.pages)
       /\ circuit_result.success =>
            /\ "image_base64" \in DOMAIN circuit_result
            /\ circuit_result.image_base64 # <<>>

\* the stage calls solve_ee_problem makes as remote calls
RemoteStages == {"indexing", "scoring", "reasoning", "codegen", "compile"}

\* the chat-completion requests a stage has sent
PostsOf(stage) == {i \in 1..Len(posts) : posts[i].stage = stage}

\* C21: in every run each of indexing, scoring, Reasoning, Code-Generation
\* and Diagram Compiler is invoked at most once, also after a failure: a
\* step that enters a stage enters one that was never started before, a
\* raised exception is followed by the end of the run only, and each chat
\* stage sends at most one chat-completion request.
C21_NoOrchestratorRetry ==
  /\ [](\A s \in {"reasoning", "codegen"} : Cardinality(PostsOf(s)) <= 1)
  /\ [][/\ \A s \in RemoteStages : (s \notin running /\ s \in running') => s \notin started
        /\ pc = "raised" => pc' \in {"raised", "returned", "escaped"}]_vars

\* the Reasoning request was sent once, the stage failed on the answer, and
\* the run ended with the failure envelope
C21_Witness ==
  /\ pc = "returned"
  /\ ~result.success
  /\ "reasoning" \in failed
  /\ Cardinality(PostsOf("reasoning")) = 1
  /\ "codegen" \notin started

\* C22: the extraction raises on no response text and returns a program
\* for each: a text that begins with { and is no JSON, or is an object
\* without a code key, goes to the fence strategies and then to the raw
\* text; a text whose fence opener has no fence marker behind it is returned
\* as it is.
C22_ExtractionNeverFails ==
  ("fn" \in DOMAIN unit /\ unit.fn = "extract" /\ unit.called)
    => /\ ~unit.raised
       /\ "code" \in DOMAIN unit
       /\ (IsTok(Strip(unit.content), 1, "{") /\ ~StrategyJson(unit.content).match)
            => unit.code \in {StrategyTaggedFence(unit.content).text,
                              StrategyAnyFence(unit.content).text, unit.content}
       /\ (~StrategyJson(unit.content).match /\ Find(unit.content, <<"FENCE">>) = 0)
            => unit.code = unit.content
       /\ LET tagged == Find(unit.content, <<"FENCE", "python">>)
              opener == IF tagged # 0 THEN tagged ELSE Find(unit.content, <<"FENCE">>)
          IN (~StrategyJson(unit.content).match /\ opener # 0
                /\ RFind(unit.content, <<"FENCE">>) <= opener)
               => unit.code = unit.content

\* the value a chat stage returned to solve_ee_problem
Returned(stage) == {posts[i].value : i \in {j \in PostsOf(stage) : posts[j].returned}}

\* C23: stage outputs pass between stages as they are: the solution text the
\* Reasoning stage returned is the text in the Code-Generation request and
\* the envelope's textual_solution; the program the Code-Generation stage
\* returned is the text run_generated_code gets and echoes as schemdraw_code
\* and is metadata.generated_code, whether it is a valid program or not.
C23_OutputsPassUnmodified ==
  /\ \A i \in PostsOf("codegen") :
       \E v \in Returned("reasoning") : posts[i].messages = DeepseekMessages(user_query, v)
  /\ "reasoning" \in returned => Returned("reasoning") = {textual_solution}
  /\ "codegen" \in returned => Returned("codegen") = {circuit_schemdraw}
  /\ "compile" \in returned => Returned("codegen") = {circuit_result.schemdraw_code}
  /\ (pc = "returned" /\ result.success)
       => /\ Returned("reasoning") = {result.textual_solution}
          /\ Returned("codegen") = {result.metadata.generated_code}
          /\ Returned("codegen") = {result.circuit_diagram.schemdraw_code}

\* a text that is no program went through to the compiler and the envelope
C23_Witness ==
  /\ pc = "returned"
  /\ result.success
  /\ ~result.circuit_diagram.success
  /\ result.metadata.generated_code = <<"FENCE", "python", "WS", "draw">>

\* ------------------------- analyze_question_with_qwen_url: the message alone
\* context lists: pages in any order without repetition, as scoring returns
\* them, and lists with an entry that is no image
ContextLists ==
  {c \in UNION {[1..n -> 0..MaxPages] : n \in 0..MaxPages} :
     \A i, j \in 1..Len(c) : i # j => c[i] # c[j]}

InitQwenMessage ==
  /\ NoRequest
  /\ figures = <<>>
  /\ runs = <<>>
  /\ \E query \in Questions, context \in ContextLists :
       \E images \in UNION {[1..n -> {B64("png a"), B64("png b")}] : n \in 0..MaxUserImages} :
         unit = [fn |-> "qwen_message", called |-> FALSE, query |-> query,
                 images |-> images, context |-> context]

\* lines 64-88 of analyze_question_with_qwen_url
BuildQwenMessages ==
  /\ "fn" \in DOMAIN unit /\ unit.fn = "qwen_message" /\ ~unit.called
  /\ unit' = [fn |-> "qwen_message", called |-> TRUE, query |-> unit.query,
              images |-> unit.images, context |-> unit.context,
              messages |-> QwenMessages(unit.query, unit.images, unit.context)]
  /\ UNCHANGED <<pipeline, figures, runs>>

NextQwenMessage == BuildQwenMessages

SpecQwenMessage == InitQwenMessage /\ [][NextQwenMessage]_vars

\* C24: for u user images and c context pages the Reasoning stage builds one
\* user message whose parts are: the text part with the preamble and then
\* the question; the u user images in the given order; and, when c > 0, the
\* separator text part and then the c context pages in the given order:
\* 1 + u parts when c = 0, 2 + u + c parts otherwise.
C24_MessageParts ==
  ("fn" \in DOMAIN unit /\ unit.fn = "qwen_message" /\ unit.called
     /\ \A j \in 1..Len(unit.context) : unit.context[j] \in 1..MaxPages)
    => LET u == Len(unit.images)
           c == Len(unit.context)
           parts == unit.messages[1].val
       IN /\ Len(unit.messages) = 1
          /\ unit.messages[1].role = "user"
          /\ Len(parts) = IF c = 0 THEN 1 + u ELSE 2 + u + c
          /\ parts[1] = [type |-> "text",
                         val |-> <<"QWEN_INSTRUCTIONS", "Question: ", unit.query>>]
          /\ \A j \in 1..u : parts[1 + j] = [type |-> "image_url", val |-> unit.images[j]]
          /\ c > 0 =>
               /\ parts[2 + u].type = "text"
               /\ parts[2 + u].val = <<"Relevant textbook pages for reference:">>
               /\ \A j \in 1..c :
                    parts[2 + u + j] =
                      [type |-> "image_url", val |-> <<"b64", "png", unit.context[j]>>]

\* a message was built from two different user images and two context pages
\* given best page first
C24_Witness ==
  /\ "fn" \in DOMAIN unit /\ unit.fn = "qwen_message" /\ unit.called
  /\ unit.images = <<B64("png b"), B64("png a")>>
  /\ unit.context = <<2, 1>>
  /\ Len(unit.messages[1].val) = 6

\* ------------------------------------------------------------ every run ends
\* Each remote call that was made eventually returns or raises, and
\* solve_ee_problem goes on whenever it can: the spawned indexing call and
\* the orchestrator are scheduled independently of each other.
IndexingEnds == IndexingCompletes \/ IndexingRaises

SpecLive == Spec /\ WF_vars(Next) /\ WF_vars(IndexingEnds)

\* C25: every run of solve_ee_problem eventually returns an envelope, and a
\* health-check loop makes at most HEALTH_CHECK_MAX_RETRIES probes.
C25_EveryRunReturnsEnvelope ==
  /\ <>(pc = "returned" /\ "success" \in DOMAIN result)
  /\ [](gate.probes <= HEALTH_CHECK_MAX_RETRIES)

\* C26: whenever solve_ee_problem has returned an envelope, the indexing
\* call it spawned has ended and was joined: none is still running, also
\* when resolving an endpoint URL failed while indexing was in flight.
C26_IndexingJoinedBeforeReturn ==
  (pc = "returned" /\ "indexing" \in started)
    => /\ pdf_task.st \in {"done", "failed"}
       /\ "indexing" \notin running

====
